---- MODULE Spec2Model ----
(***************************************************************************)
(* PricePeek: the interactive price ledger of src/src/main.rs.             *)
(*                                                                         *)
(* A text is a sequence of one-character strings, so that the CSV writer   *)
(* and reader are modelled character by character.  A file is a text, or   *)
(* NoFile when the path does not exist.                                    *)
(***************************************************************************)
EXTENDS Integers, Sequences, FiniteSets, TLC

COMMA == ","
QUOTE == "\""
LF    == "\n"
CR    == "\r"

\* const HEADER: [&str; 5]
HEADER ==
  << <<"p","r","o","d","u","c","t">>,
     <<"c","a","t","e","g","o","r","y">>,
     <<"p","r","i","c","e">>,
     <<"u","r","l">>,
     <<"t","i","m","e","s","t","a","m","p">> >>

\* The header of a file written before the category column existed.
LegacyHeader ==
  << <<"p","r","o","d","u","c","t">>,
     <<"p","r","i","c","e">>,
     <<"u","r","l">>,
     <<"t","i","m","e","s","t","a","m","p">> >>

----------------------------------------------------------------------------
(* Small helpers on sequences.                                             *)

RECURSIVE Concat(_)
Concat(ss) == IF ss = <<>> THEN <<>> ELSE Head(ss) \o Concat(Tail(ss))

IsPrefix(s, t) == Len(s) <= Len(t) /\ SubSeq(t, 1, Len(s)) = s

\* Not Vec::remove: the element after position i goes instead.
RemoveAfter(s, i) == SubSeq(s, 1, i) \o SubSeq(s, i + 2, Len(s))

RemoveAt(s, i) == SubSeq(s, 1, i - 1) \o SubSeq(s, i + 1, Len(s))

Range(s) == {s[i] : i \in 1..Len(s)}

----------------------------------------------------------------------------
(* f64 values, as far as the program uses them: a finite decimal           *)
(* (-1)^neg * num / 10^scale with no trailing fraction zero, an infinity,  *)
(* or NaN.                                                                 *)

Fin(neg, num, scale) == [k |-> "fin", neg |-> neg, num |-> num, scale |-> scale]
Inf(neg) == [k |-> "inf", neg |-> neg, num |-> 0, scale |-> 0]
NaN == [k |-> "nan", neg |-> FALSE, num |-> 0, scale |-> 0]
Zero == Fin(FALSE, 0, 0)

RECURSIVE Pow10(_)
Pow10(n) == IF n = 0 THEN 1 ELSE 10 * Pow10(n - 1)

RECURSIVE Normalize(_)
Normalize(v) ==
  IF v.k = "fin" /\ v.scale > 0 /\ v.num % 10 = 0
  THEN Normalize(Fin(v.neg, v.num \div 10, v.scale - 1))
  ELSE v

Digits == {"0","1","2","3","4","5","6","7","8","9"}

DigitVal(c) ==
  CASE c = "0" -> 0 [] c = "1" -> 1 [] c = "2" -> 2 [] c = "3" -> 3
    [] c = "4" -> 4 [] c = "5" -> 5 [] c = "6" -> 6 [] c = "7" -> 7
    [] c = "8" -> 8 [] c = "9" -> 9

DigitChar(d) ==
  CASE d = 0 -> "0" [] d = 1 -> "1" [] d = 2 -> "2" [] d = 3 -> "3"
    [] d = 4 -> "4" [] d = 5 -> "5" [] d = 6 -> "6" [] d = 7 -> "7"
    [] d = 8 -> "8" [] d = 9 -> "9"

\* u8::to_ascii_lowercase, on the letters the model's texts use.
ToAsciiLower(c) ==
  CASE c = "A" -> "a" [] c = "B" -> "b" [] c = "C" -> "c" [] c = "F" -> "f"
    [] c = "I" -> "i" [] c = "N" -> "n" [] c = "S" -> "s" [] c = "T" -> "t"
    [] c = "Y" -> "y" [] c = "E" -> "e"
    [] OTHER -> c

LowerText(t) == [i \in 1..Len(t) |-> ToAsciiLower(t[i])]

\* str::eq_ignore_ascii_case
EqIgnoreAsciiCase(a, b) == LowerText(a) = LowerText(b)

RECURSIVE DigitsValue(_)
DigitsValue(ds) ==
  IF ds = <<>> THEN 0
  ELSE 10 * DigitsValue(SubSeq(ds, 1, Len(ds) - 1)) + DigitVal(ds[Len(ds)])

AllDigits(t) == \A i \in 1..Len(t) : t[i] \in Digits

\* <f64 as FromStr>::from_str on the forms without an exponent: an optional
\* sign, then "inf", "infinity" or "nan" in any letter case, or digits with at
\* most one '.' and at least one digit.  The result is [ok, val].
ParseF64(t) ==
  LET signed == Len(t) > 0 /\ t[1] \in {"+", "-"}
      neg    == Len(t) > 0 /\ t[1] = "-"
      body   == IF signed THEN Tail(t) ELSE t
      low    == LowerText(body)
      dots   == {i \in 1..Len(body) : body[i] = "."}
      ip     == IF dots = {} THEN body
                ELSE SubSeq(body, 1, (CHOOSE i \in dots : TRUE) - 1)
      fp     == IF dots = {} THEN <<>>
                ELSE SubSeq(body, (CHOOSE i \in dots : TRUE) + 1, Len(body))
      Err    == [ok |-> FALSE, val |-> Zero]
  IN  IF body = <<>> THEN Err
      ELSE IF low = <<"n","a","n">> THEN [ok |-> TRUE, val |-> NaN]
      ELSE IF low \in { <<"i","n","f">>, <<"i","n","f","i","n","i","t","y">> }
           THEN [ok |-> TRUE, val |-> Inf(neg)]
      ELSE IF Cardinality(dots) > 1 THEN Err
      ELSE IF ~(AllDigits(ip) /\ AllDigits(fp)) THEN Err
      ELSE IF Len(ip) + Len(fp) = 0 THEN Err
      ELSE [ok |-> TRUE,
            val |-> Normalize(Fin(neg, DigitsValue(ip \o fp), Len(fp)))]

RECURSIVE NatText(_)
NatText(n) ==
  IF n < 10 THEN <<DigitChar(n)>>
  ELSE NatText(n \div 10) \o <<DigitChar(n % 10)>>

\* |v| in hundredths, rounded as "{:.2}" rounds: to the nearest hundredth, a
\* value exactly halfway between two going to the even one.  (Of the decimal
\* halfway values only those a double holds exactly, such as 0.125, are
\* among the inputs of the model.)
Cents(v) ==
  IF v.scale <= 2 THEN v.num * Pow10(2 - v.scale)
  ELSE LET unit == Pow10(v.scale - 2)
           q    == v.num \div unit
           r    == v.num % unit
       IN  IF 2 * r < unit THEN q
           ELSE IF 2 * r > unit THEN q + 1
           ELSE IF q % 2 = 0 THEN q ELSE q + 1

\* The value "{:.2}" shows.
Round2(v) ==
  IF v.k = "fin" THEN Normalize(Fin(v.neg, Cents(v), 2)) ELSE v

\* format!("{:.2}", price)
FormatPrice(v) ==
  CASE v.k = "nan" -> <<"N","a","N">>
    [] v.k = "inf" -> (IF v.neg THEN <<"-">> ELSE <<>>) \o <<"i","n","f">>
    [] OTHER ->
         LET c == Cents(v)
         IN  (IF v.neg THEN <<"-">> ELSE <<>>)
             \o NatText(c \div 100) \o <<".">>
             \o <<DigitChar((c \div 10) % 10), DigitChar(c % 10)>>

\* f64::partial_cmp, as "lt", "eq", "gt" or "none".
Sgn(v) == IF v.neg THEN -1 ELSE 1
PartialCmp(a, b) ==
  IF a.k = "nan" \/ b.k = "nan" THEN "none"
  ELSE IF a.k = "inf" \/ b.k = "inf"
       THEN LET ra == IF a.k = "inf" THEN 2 * Sgn(a) ELSE 0
                rb == IF b.k = "inf" THEN 2 * Sgn(b) ELSE 0
            IN  IF ra < rb THEN "lt" ELSE IF ra > rb THEN "gt" ELSE "eq"
       ELSE LET s  == IF a.scale > b.scale THEN a.scale ELSE b.scale
                xa == Sgn(a) * a.num * Pow10(s - a.scale)
                xb == Sgn(b) * b.num * Pow10(s - b.scale)
            IN  IF xa < xb THEN "lt" ELSE IF xa > xb THEN "gt" ELSE "eq"

----------------------------------------------------------------------------
(* The csv crate's writer with its defaults: ',' delimiter, '"' quote      *)
(* doubled inside a quoted field, a field quoted only when it has to be,   *)
(* "\n" after each record.                                                 *)

NeedsQuotes(f) == \E i \in 1..Len(f) : f[i] \in {COMMA, QUOTE, LF, CR}

RECURSIVE DoubleQuotes(_)
DoubleQuotes(f) ==
  IF f = <<>> THEN <<>>
  ELSE (IF Head(f) = QUOTE THEN <<QUOTE, QUOTE>> ELSE <<Head(f)>>)
       \o DoubleQuotes(Tail(f))

\* Not the writer: a quote inside a quoted field is left single.
WriteFieldBare(f) ==
  IF NeedsQuotes(f) THEN <<QUOTE>> \o f \o <<QUOTE>> ELSE f

WriteField(f) ==
  IF NeedsQuotes(f) THEN <<QUOTE>> \o DoubleQuotes(f) \o <<QUOTE>> ELSE f

RECURSIVE JoinFields(_)
JoinFields(fs) ==
  IF Len(fs) = 0 THEN <<>>
  ELSE IF Len(fs) = 1 THEN WriteField(fs[1])
  ELSE WriteField(fs[1]) \o <<COMMA>> \o JoinFields(Tail(fs))

\* csv::Writer::write_record (a record of one empty field is written as "").
WriteRecord(fs) ==
  (IF fs = << <<>> >> THEN <<QUOTE, QUOTE>> ELSE JoinFields(fs)) \o <<LF>>

WriteRecords(recs) == Concat([i \in 1..Len(recs) |-> WriteRecord(recs[i])])

----------------------------------------------------------------------------
(* The csv crate's reader with its defaults: records end at "\r", "\n" or  *)
(* "\r\n", empty lines are skipped, a field that starts with '"' runs to   *)
(* the closing '"' ("" inside stands for one '"'), and the text's end ends *)
(* a record in progress.  CsvRecords is every record of the text, the      *)
(* header record included.                                                 *)

Min(S) == CHOOSE x \in S : \A y \in S : x <= y
Max(S) == CHOOSE x \in S : \A y \in S : x >= y

\* The first position from i on that holds a character of cs; past the end
\* of the text when there is none.
RECURSIVE FirstAt(_, _, _)
FirstAt(text, i, cs) ==
  IF i > Len(text) THEN Len(text) + 1
  ELSE IF text[i] \in cs THEN i
  ELSE FirstAt(text, i + 1, cs)

\* For a field whose opening quote is at i: the position of its closing
\* quote, the first quote that is not one of a "" pair; past the end of the
\* text when the field is not closed.
CloseAt(text, i) ==
  LET RunStart(j) == Max({i} \cup {m \in (i + 1)..j : text[m] # QUOTE})
      ends == {j \in (i + 1)..Len(text) :
                 /\ text[j] = QUOTE
                 /\ (j = Len(text) \/ text[j + 1] # QUOTE)
                 /\ (j - RunStart(j)) % 2 = 1}
  IN  IF ends = {} THEN Len(text) + 1 ELSE Min(ends)

\* The inside of a quoted field, "" read as one quote.
RECURSIVE Unescape(_)
Unescape(s) ==
  IF s = <<>> THEN <<>>
  ELSE IF Head(s) = QUOTE THEN <<QUOTE>> \o Unescape(Tail(Tail(s)))
  ELSE <<Head(s)>> \o Unescape(Tail(s))

\* The field that starts at i: [fld, stop], stop being the position of the
\* delimiter or terminator that ends it (past the end of the text when the
\* text ends it).  What follows a closing quote up to there is taken as is.
QuotedField(text, i, close, stop) ==
  [fld  |-> Unescape(SubSeq(text, i + 1, close - 1))
            \o SubSeq(text, close + 1, stop - 1),
   stop |-> stop]

QuotedFieldTo(text, i, close) ==
  QuotedField(text, i, close, FirstAt(text, close + 1, {COMMA, LF, CR}))

PlainField(text, i, stop) == [fld |-> SubSeq(text, i, stop - 1), stop |-> stop]

ScanField(text, i) ==
  IF i <= Len(text) /\ text[i] = QUOTE
  THEN QuotedFieldTo(text, i, CloseAt(text, i))
  ELSE PlainField(text, i, FirstAt(text, i, {COMMA, LF, CR}))

\* The record whose next field starts at i: [rec, next].
RECURSIVE ScanFields(_, _)
ConsField(f, rest) == [rec |-> <<f.fld>> \o rest.rec, next |-> rest.next]

AfterField(text, f) ==
  IF f.stop <= Len(text) /\ text[f.stop] = COMMA
  THEN ConsField(f, ScanFields(text, f.stop + 1))
  ELSE [rec |-> <<f.fld>>, next |-> f.stop + 1]

ScanFields(text, i) == AfterField(text, ScanField(text, i))

\* The records from i on; terminators before a record (empty lines, the
\* "\n" of "\r\n") are skipped.
RECURSIVE ScanRecords(_, _)
ConsRecord(text, r) == <<r.rec>> \o ScanRecords(text, r.next)

ScanRecords(text, i) ==
  IF i > Len(text) THEN <<>>
  ELSE IF text[i] \in {LF, CR} THEN ScanRecords(text, i + 1)
  ELSE ConsRecord(text, ScanFields(text, i))

CsvRecords(text) == ScanRecords(text, 1)

----------------------------------------------------------------------------
(* Rows.                                                                   *)

\* struct Row
Row(product, category, price, url, timestamp) ==
  [product |-> product, category |-> category, price |-> price,
   url |-> url, timestamp |-> timestamp]

\* rec.get(i).unwrap_or(d), columns counted from 0
Get(rec, i, d) == IF i + 1 <= Len(rec) THEN rec[i + 1] ELSE d

\* .parse().unwrap_or(0.0)
ParseOrZero(t) == IF ParseF64(t).ok THEN ParseF64(t).val ELSE Zero

\* The body of read_rows's loop: one record to one Row.
RowOfRecord(rec) ==
  IF Len(rec) >= 5
  THEN Row(Get(rec, 0, <<>>), Get(rec, 1, <<>>),
           ParseOrZero(Get(rec, 2, <<"0">>)),
           Get(rec, 3, <<>>), Get(rec, 4, <<>>))
  ELSE Row(Get(rec, 0, <<>>), <<>>,
           ParseOrZero(Get(rec, 1, <<"0">>)),
           Get(rec, 2, <<>>), Get(rec, 3, <<>>))

\* Whether rdr.records() yields an error: the reader is not flexible, so a
\* record whose number of fields differs from the first record's (the
\* header's) is an error, which `rec?` returns from read_rows.
UnequalLengths(recs) ==
  \E i \in 2..Len(recs) : Len(recs[i]) # Len(recs[1])

\* read_rows's result for the records the reader finds: [ok, rows].
RowsOfRecords(recs) ==
  IF UnequalLengths(recs) THEN [ok |-> FALSE, rows |-> <<>>]
  ELSE [ok |-> TRUE,
        rows |-> [i \in 1..(Len(recs) - 1) |-> RowOfRecord(recs[i + 1])]]

\* read_rows on a file that exists.
ReadRows(text) == RowsOfRecords(CsvRecords(text))

\* The record write_rows and the export write for a row.
\* Not write_rows: a row without a category written in the four-column layout.
RecordOfRowShort(r) ==
  IF r.category = <<>>
  THEN <<r.product, FormatPrice(r.price), r.url, r.timestamp>>
  ELSE <<r.product, r.category, FormatPrice(r.price), r.url, r.timestamp>>

RecordOfRow(r) ==
  <<r.product, r.category, FormatPrice(r.price), r.url, r.timestamp>>

\* The text write_rows leaves in the file it has truncated.
EncodeRows(rows) ==
  WriteRecord(HEADER)
  \o Concat([i \in 1..Len(rows) |-> WriteRecord(RecordOfRow(rows[i]))])

----------------------------------------------------------------------------
(* The state: the files the program reads, by path; where main is; what it *)
(* printed last, or wrote to a file it never reads again (an export).      *)

VARIABLES files, pc, out

vars == <<files, pc, out>>

\* let db = "prices.csv";
DB == "prices.csv"
\* if out.is_empty() { "export.csv" }
DefaultExport == "export.csv"
\* A path File::create refuses (its directory does not exist).
BadPath == "nodir/x.csv"
Paths == {DB}

NoFile == [exists |-> FALSE, text |-> <<>>]
File(text) == [exists |-> TRUE, text |-> text]

\* A message; the rows shown with it; the file written and the rows in it.
Msg(m) == [msg |-> m, rows |-> <<>>, dest |-> ""]
Shown(m, rows) == [msg |-> m, rows |-> rows, dest |-> ""]
Exported(dest, rows) == [msg |-> "Exported to", rows |-> rows, dest |-> dest]

\* ensure_db
EnsureDb(fs, path) ==
  IF fs[path].exists THEN fs
  ELSE [fs EXCEPT ![path] = File(WriteRecord(HEADER))]

\* read_rows: ensure_db, then the reader over the whole file.
ReadRowsAt(fs, path) == ReadRows(EnsureDb(fs, path)[path].text)

\* csv::Writer::from_path(path) truncates the file; write_rows then writes
\* the header and the rows and flushes.
WriteRows(fs, path, rows) == [fs EXCEPT ![path] = File(EncodeRows(rows))]

\* Not append_row: the new row put first.
PrependRead(fs, path, r, rd) ==
  IF ~rd.ok THEN [ok |-> FALSE, files |-> EnsureDb(fs, path)]
  ELSE [ok |-> TRUE,
        files |-> WriteRows(EnsureDb(fs, path), path, <<r>> \o rd.rows)]

\* append_row, rd being what its read_rows returns: [ok, files]
AppendRead(fs, path, r, rd) ==
  IF ~rd.ok THEN [ok |-> FALSE, files |-> EnsureDb(fs, path)]
  ELSE [ok |-> TRUE,
        files |-> WriteRows(EnsureDb(fs, path), path, Append(rd.rows, r))]

\* append_row
AppendRow(fs, path, r) == AppendRead(fs, path, r, ReadRowsAt(fs, path))

\* price_s.replace(',', ".")
ReplaceCommas(t) == [i \in 1..Len(t) |-> IF t[i] = "," THEN "." ELSE t[i]]

\* matches!(confirm.to_lowercase().as_str(), "y" | "yes")
IsYes(t) == LowerText(t) \in { <<"y">>, <<"y","e","s">> }

\* sel.parse::<usize>(): [ok, val]
ParseUsize(t) ==
  LET body == IF Len(t) > 0 /\ t[1] = "+" THEN Tail(t) ELSE t
  IN  IF body # <<>> /\ AllDigits(body)
      THEN [ok |-> TRUE, val |-> DigitsValue(body)]
      ELSE [ok |-> FALSE, val |-> 0]

\* rows.into_iter().filter(|r| r.category.eq_ignore_ascii_case(&cat))
FilterByCategory(rows, cat) ==
  IF cat = <<>> THEN rows
  ELSE SelectSeq(rows, LAMBDA r : EqIgnoreAsciiCase(r.category, cat))

\* Iterator::min_by with partial_cmp(..).unwrap_or(Equal): the accumulator is
\* replaced only by an element that compares less.
RECURSIVE MinByFrom(_, _, _)
MinByFrom(rows, i, acc) ==
  IF i > Len(rows) THEN acc
  ELSE MinByFrom(rows, i + 1,
                 IF PartialCmp(acc.price, rows[i].price) = "gt"
                 THEN rows[i] ELSE acc)

MinByPrice(rows) == MinByFrom(rows, 2, rows[1])

----------------------------------------------------------------------------
(* Bounds and the inputs the user and the environment are drawn from.      *)

\* No row is added to a store file that already holds MaxRows data lines.
MaxRows == 2

Url == <<"u">>
Sn  == <<"S","n">>
sn  == <<"s","n">>

\* What the user types for option 1: product, category, price, link.
UserAdds ==
  { << <<"a",",","b">>, Sn,   <<"5">>,                 Url >>,
    << <<"b">>,         sn,   <<"4",",","5","0","9">>, Url >>,
    << <<"c">>,         <<>>, <<"5">>,                 <<QUOTE,"u">> >>,
    << <<"e">>,         sn,   <<"N","a","N">>,         Url >>,
    << <<"f">>,         Sn,   <<"-","1">>,             Url >>,
    << <<"g">>,         sn,   <<"a","b","c">>,         Url >>,
    << <<"g">>,         sn,   <<"1",",","0","0","0",".","5">>, Url >> }

\* Utc::now().to_rfc3339(), opaque to the program.
Timestamps == { <<"T","1">> }

\* What the user types at a category prompt.
Categories == { <<>>, Sn, <<"x">> }

\* What the user types at a y/N prompt.
Confirms == { <<"Y">>, <<>> }

\* What the user types at "Number to delete".
Selections ==
  { <<>>, <<"x">> } \cup { NatText(n) : n \in 0..(MaxRows + 1) }

\* What the user types at "Filename".
Filenames == { "", DB, BadPath }

T0 == <<"T","0">>

\* A file of the program's first version: no category column.
LegacyStore ==
  WriteRecord(LegacyHeader)
  \o WriteRecord(<< <<"o">>, <<"3",".","5","0">>, Url, T0 >>)

\* A current file to which a row in the old layout was added by hand.
MixedStore ==
  WriteRecord(HEADER)
  \o WriteRecord(<< <<"o">>, <<"3",".","5","0">>, Url, T0 >>)

\* Current files whose price cells were edited by hand.
EditedStore1 ==
  WriteRecord(HEADER)
  \o WriteRecord(<< <<"o">>, <<>>, <<"1",".","2","3","9">>, Url, T0 >>)

EditedStore2 ==
  EditedStore1
  \o WriteRecord(<< <<"p">>, Sn, <<"a","b","c">>, Url, T0 >>)

\* The store file main finds when it starts.
InitStores ==
  { NoFile, File(LegacyStore), File(MixedStore),
    File(EditedStore1), File(EditedStore2) }

----------------------------------------------------------------------------
(* main.  In the actions rd is what read_rows(db) returns in the state the *)
(* action starts in.                                                       *)

Init ==
  /\ \E f \in InitStores : files = [p \in Paths |-> f]
  /\ pc = "start"
  /\ out = Msg("")

\* main, up to the loop: ensure_db(db)?
Start ==
  /\ pc = "start"
  /\ files' = EnsureDb(files, DB)
  /\ pc' = "menu"
  /\ UNCHANGED out

\* `?` on an error: main returns it and the process ends.
Fail(m) == pc' = "failed" /\ out' = Msg(m)

\* The end of option 1, res being what append_row did.
Appended(res) ==
  /\ files' = res.files
  /\ IF res.ok THEN pc' = "menu" /\ out' = Msg("Saved.")
     ELSE Fail("Error: CSV error")

AddOf(product, category, p, url, timestamp, rd) ==
  IF ~p.ok
  THEN Fail("Error: Invalid price") /\ UNCHANGED files
  ELSE /\ Len(rd.rows) < MaxRows
       /\ Appended(AppendRead(files, DB,
                     Row(product, category, p.val, url, timestamp), rd))

\* "1": add a product price.
Add(product, category, price_s, url, timestamp) ==
  /\ pc = "menu"
  /\ AddOf(product, category, ParseF64(ReplaceCommas(price_s)), url,
           timestamp, ReadRowsAt(files, DB))

ListOf(rd) ==
  /\ files' = EnsureDb(files, DB)
  /\ IF ~rd.ok THEN Fail("Error: CSV error")
     ELSE /\ pc' = "menu"
          /\ out' = IF rd.rows = <<>> THEN Msg("No entries.")
                    ELSE Shown("", rd.rows)

\* "2": list all prices.
List ==
  /\ pc = "menu"
  /\ ListOf(ReadRowsAt(files, DB))

\* What option 3 prints for the rows it keeps.
Best(filtered) ==
  IF filtered = <<>> THEN Msg("No entries for that category.")
  ELSE Shown("Cheapest option:", <<MinByPrice(filtered)>>)

CheapestOf(cat, rd) ==
  /\ files' = EnsureDb(files, DB)
  /\ IF ~rd.ok THEN Fail("Error: CSV error")
     ELSE /\ pc' = "menu"
          /\ out' = IF rd.rows = <<>> THEN Msg("No entries.")
                    ELSE Best(FilterByCategory(rd.rows, cat))

\* "3": show the cheapest option.
Cheapest(cat) ==
  /\ pc = "menu"
  /\ CheapestOf(cat, ReadRowsAt(files, DB))

\* The export's writer on dest.  A file other than the store is not read
\* again: what was written to it is kept in out.
ExportTo(dest, rows) ==
  IF dest = BadPath
  THEN Fail("Error: Create") /\ files' = EnsureDb(files, DB)
  ELSE /\ files' = IF dest \in Paths
                   THEN WriteRows(EnsureDb(files, DB), dest, rows)
                   ELSE EnsureDb(files, DB)
       /\ pc' = "menu"
       /\ out' = Exported(dest, rows)

ExportOf(dest, cat, rd) ==
  IF ~rd.ok
  THEN Fail("Error: CSV error") /\ files' = EnsureDb(files, DB)
  ELSE ExportTo(dest, FilterByCategory(rd.rows, cat))

\* "4": export data to CSV.
Export(confirm, filename, cat) ==
  /\ pc = "menu"
  /\ IF ~IsYes(confirm)
     THEN pc' = "menu" /\ out' = Msg("Export canceled.") /\ UNCHANGED files
     ELSE ExportOf(IF filename = "" THEN DefaultExport ELSE filename, cat,
                   ReadRowsAt(files, DB))

DeleteOf(sel, confirm, n, rd) ==
  IF ~rd.ok
  THEN Fail("Error: CSV error") /\ files' = EnsureDb(files, DB)
  ELSE /\ pc' = "menu"
       /\ IF rd.rows = <<>>
          THEN out' = Msg("No entries.") /\ files' = EnsureDb(files, DB)
          ELSE IF sel = <<>>
          THEN out' = Msg("Canceled.") /\ files' = EnsureDb(files, DB)
          ELSE IF ~n.ok
          THEN out' = Msg("Invalid number.") /\ files' = EnsureDb(files, DB)
          ELSE IF n.val = 0 \/ n.val > Len(rd.rows)
          THEN out' = Msg("Out of range.") /\ files' = EnsureDb(files, DB)
          ELSE IF ~IsYes(confirm)
          THEN out' = Msg("Canceled.") /\ files' = EnsureDb(files, DB)
          ELSE /\ out' = Msg("Deleted.")
               /\ files' = WriteRows(EnsureDb(files, DB), DB,
                                     RemoveAt(rd.rows, n.val))

\* "5": delete a product.
Delete(sel, confirm) ==
  /\ pc = "menu"
  /\ DeleteOf(sel, confirm, ParseUsize(sel), ReadRowsAt(files, DB))

\* "6": exit.
Exit ==
  /\ pc = "menu"
  /\ pc' = "exited"
  /\ out' = Msg("Goodbye.")
  /\ UNCHANGED files

\* Any other choice.
InvalidOption ==
  /\ pc = "menu"
  /\ pc' = "menu"
  /\ out' = Msg("Invalid option.")
  /\ UNCHANGED files

Next ==
  \/ Start
  \/ \E u \in UserAdds, t \in Timestamps : Add(u[1], u[2], u[3], u[4], t)
  \/ List
  \/ \E cat \in Categories : Cheapest(cat)
  \/ \E c \in Confirms, f \in Filenames, cat \in Categories : Export(c, f, cat)
  \/ \E s \in Selections, c \in Confirms : Delete(s, c)
  \/ Exit
  \/ InvalidOption

Spec == Init /\ [][Next]_vars

----------------------------------------------------------------------------
(* The process dies inside write_rows, reached from option 1 or option 5,  *)
(* after Writer::from_path has truncated the file and before the last      *)
(* flush has returned: the file holds the first k characters of what was   *)
(* being written, for some k short of all of it.                           *)

\* Not Writer::from_path: the file is not truncated, the k characters are
\* written over the start of what it held.
WriteOverCrash(fs, path, rows, k) ==
  [fs EXCEPT ![path] =
     File(SubSeq(EncodeRows(rows), 1, k)
          \o SubSeq(fs[path].text, k + 1, Len(fs[path].text)))]

WriteRowsCrash(fs, path, rows, k) ==
  [fs EXCEPT ![path] = File(SubSeq(EncodeRows(rows), 1, k))]

CrashPoints(rows) == 0..(Len(EncodeRows(rows)) - 1)

CrashIn(rows) ==
  /\ \E k \in CrashPoints(rows) :
       files' = WriteRowsCrash(EnsureDb(files, DB), DB, rows, k)
  /\ pc' = "crashed"
  /\ UNCHANGED out

AddCrashOf(product, category, p, url, timestamp, rd) ==
  /\ p.ok
  /\ rd.ok
  /\ Len(rd.rows) < MaxRows
  /\ CrashIn(Append(rd.rows, Row(product, category, p.val, url, timestamp)))

AddCrash(product, category, price_s, url, timestamp) ==
  /\ pc = "menu"
  /\ AddCrashOf(product, category, ParseF64(ReplaceCommas(price_s)), url,
                timestamp, ReadRowsAt(files, DB))

DeleteCrashOf(confirm, n, rd) ==
  /\ rd.ok
  /\ n.ok
  /\ n.val >= 1
  /\ n.val <= Len(rd.rows)
  /\ IsYes(confirm)
  /\ CrashIn(RemoveAt(rd.rows, n.val))

DeleteCrash(sel, confirm) ==
  /\ pc = "menu"
  /\ DeleteCrashOf(confirm, ParseUsize(sel), ReadRowsAt(files, DB))

\* The operations that write the store, and the process dying in them.
NextCrash ==
  \/ Start
  \/ \E u \in UserAdds, t \in Timestamps : Add(u[1], u[2], u[3], u[4], t)
  \/ \E s \in Selections, c \in Confirms : Delete(s, c)
  \/ \E u \in UserAdds, t \in Timestamps : AddCrash(u[1], u[2], u[3], u[4], t)
  \/ \E s \in Selections, c \in Confirms : DeleteCrash(s, c)

SpecCrash == Init /\ [][NextCrash]_vars

----------------------------------------------------------------------------
(* decode on its own: read_rows, through option 2, on store files of many  *)
(* shapes.                                                                 *)

\* A store file holds at most MaxLines data lines when main starts.
MaxLines == 2

OddHeader == << <<"x">>, <<"y">>, <<"z">>, <<"w">>, <<"v">> >>
SixHeader == HEADER \o << <<"n","o","t","e">> >>
TwoHeader == << <<"p","r","o","d","u","c","t">>, <<"p","r","i","c","e">> >>

DecodeHeaders == { HEADER, LegacyHeader, OddHeader, SixHeader, TwoHeader }

DataLines ==
  { << <<"a">>, Sn, <<"5",".","0","0">>, Url, T0 >>,
    << <<"o">>, <<"3",".","5","0">>, Url, T0 >>,
    << <<"b">>, sn, <<"a","b","c">>, Url, T0, <<"n">> >>,
    << <<"z">>, <<"7">> >> }

LineSeqs == UNION { [1..n -> DataLines] : n \in 0..MaxLines }

InitDecode ==
  /\ \E h \in DecodeHeaders, ls \in LineSeqs :
       files = [p \in Paths |-> File(WriteRecords(<<h>> \o ls))]
  /\ pc = "start"
  /\ out = Msg("")

NextDecode == Start \/ List \/ Exit

SpecDecode == InitDecode /\ [][NextDecode]_vars

----------------------------------------------------------------------------
(* encode and decode on their own: write_rows of a sequence of well-formed *)
(* records to a new store, then read_rows of it.  out holds the records.   *)

\* At most MaxRecords records are encoded.
MaxRecords == 2

T1 == <<"T","1">>

WellFormedRows ==
  { Row(<<"a",",","b">>, Sn, Fin(FALSE, 5, 0), Url, T1),
    Row(<<"q",QUOTE,"x">>, <<>>, Fin(FALSE, 451, 2), <<QUOTE,"u">>, T1),
    Row(<<"x",LF,"y",CR>>, sn, Fin(FALSE, 125, 1), <<",">>, T1),
    Row(<<"c">>, <<>>, Zero, <<>>, <<>>),
    Row(<<"d">>, Sn, Fin(FALSE, 1200, 0), Url, T1),
    Row(<<QUOTE>>, <<QUOTE,QUOTE>>, Fin(FALSE, 1, 2), <<" ">>, T1) }

RowSeqs == UNION { [1..n -> WellFormedRows] : n \in 0..MaxRecords }

InitCodec ==
  /\ files = [p \in Paths |-> NoFile]
  /\ pc = "codec"
  /\ \E rows \in RowSeqs : out = Shown("", rows)

\* replaceAll: write_rows
WriteRowsStep ==
  /\ pc = "codec"
  /\ files' = WriteRows(files, DB, out.rows)
  /\ pc' = "encoded"
  /\ UNCHANGED out

ReadRowsOf(rd) ==
  /\ files' = EnsureDb(files, DB)
  /\ out' = IF rd.ok THEN Shown("", rd.rows) ELSE Msg("Error: CSV error")

\* loadAll: read_rows
ReadRowsStep ==
  /\ pc = "encoded"
  /\ ReadRowsOf(ReadRowsAt(files, DB))
  /\ pc' = "decoded"

NextCodec == WriteRowsStep \/ ReadRowsStep

SpecCodec == InitCodec /\ [][NextCodec]_vars

----------------------------------------------------------------------------
(* What the claims are stated with.  In a step formula L is what loadAll   *)
(* returns on the store before the step and LN what it returns after it.   *)

Loaded == ReadRowsAt(files, DB)
LoadedNext == ReadRowsAt(files', DB)

Ok(rows) == [ok |-> TRUE, rows |-> rows]

\* The rows with every price as two decimals show it.
RoundPrices(rows) ==
  [i \in 1..Len(rows) |-> [rows[i] EXCEPT !.price = Round2(@)]]

\* The row option 1 builds from what the user typed.
TypedRow(u, t) == Row(u[1], u[2], ParseF64(ReplaceCommas(u[3])).val, u[4], t)

\* The step is option 1 with u typed at time t.
AddStep(u, t, L) ==
  pc = "menu" /\ AddOf(u[1], u[2], ParseF64(ReplaceCommas(u[3])), u[4], t, L)

\* The step is option 5 with s and c typed.
DeleteStep(s, c, L) == pc = "menu" /\ DeleteOf(s, c, ParseUsize(s), L)

\* The step is option 3 with cat typed.
CheapestStep(cat, L) == pc = "menu" /\ CheapestOf(cat, L)

\* rows without the one at position n (counted from 1).
Without(rows, n) ==
  [j \in 1..(Len(rows) - 1) |-> IF j < n THEN rows[j] ELSE rows[j + 1]]

\* The step is option 2.
ListStep(L) == pc = "menu" /\ ListOf(L)

\* A price cell as the writer formats a finite price: digits, '.', two digits.
TwoFractionDigits(cell) ==
  /\ Len(cell) >= 4
  /\ cell[Len(cell) - 2] = "."
  /\ cell[Len(cell) - 1] \in Digits
  /\ cell[Len(cell)] \in Digits

\* The records recs are the header and then one five-column record per row
\* of rows, in order.
RecordsHold(recs, rows) ==
  /\ Len(recs) = Len(rows) + 1
  /\ recs[1] = HEADER
  /\ \A i \in 1..Len(rows) :
       /\ Len(recs[i + 1]) = 5
       /\ recs[i + 1][1] = rows[i].product
       /\ recs[i + 1][2] = rows[i].category
       /\ ParseF64(recs[i + 1][3]) = [ok |-> TRUE, val |-> Round2(rows[i].price)]
       /\ rows[i].price.k = "fin" => TwoFractionDigits(recs[i + 1][3])
       /\ recs[i + 1][4] = rows[i].url
       /\ recs[i + 1][5] = rows[i].timestamp

\* The file text starts with the header line and holds exactly rows.
HoldsExactly(text, rows) ==
  /\ IsPrefix(WriteRecord(HEADER), text)
  /\ RecordsHold(CsvRecords(text), rows)

----------------------------------------------------------------------------
\* C1: an export never changes the primary store: whatever destination and
\* category the user types, loadAll returns after a successful export the
\* sequence it returned before it.
C1_ExportLeavesStore ==
  [][pc = "menu" /\ out'.msg = "Exported to" => LoadedNext = Loaded]_vars

----------------------------------------------------------------------------
\* What C2 asks of one step from a store that loads as L.
C2_Step(L) ==
  /\ out'.msg = "Saved." =>
       \A u \in UserAdds, t \in Timestamps :
         AddStep(u, t, L) =>
           HoldsExactly(files'[DB].text, Append(L.rows, TypedRow(u, t)))
  /\ out'.msg = "Deleted." =>
       \A s \in Selections, c \in Confirms :
         DeleteStep(s, c, L) =>
           HoldsExactly(files'[DB].text, Without(L.rows, ParseUsize(s).val))

\* C2: after a successful append or delete, from any readable store file
\* (a legacy one included), the file is the five-name header line and then
\* one five-column line per current record, in order; the rows that were
\* there before an append are all rewritten so.
C2_CanonicalAfterMutation == [][pc = "menu" => C2_Step(Loaded)]_vars

\* C2's case: a row was appended to the legacy file, whose old line now has
\* five columns and an empty category.
C2_Witness ==
  /\ out.msg = "Saved."
  /\ Len(CsvRecords(files[DB].text)) = 3
  /\ CsvRecords(files[DB].text)[2] =
       << <<"o">>, <<>>, <<"3",".","5","0">>, Url, T0 >>

----------------------------------------------------------------------------
\* What C3 asks of one step: after(rows) is what loadAll is to return when
\* rows are the records that remain.
C3_Step(L, LN, after(_)) ==
  L.ok /\ L.rows # <<>> =>
    \A s \in Selections, c \in Confirms :
      DeleteStep(s, c, L) /\ ParseUsize(s).ok =>
        IF ParseUsize(s).val = 0 \/ ParseUsize(s).val > Len(L.rows)
        THEN out'.msg = "Out of range." /\ files' = files /\ pc' = "menu"
        ELSE IsYes(c) => LN = Ok(after(Without(L.rows, ParseUsize(s).val)))

SameRows(rows) == rows

----------------------------------------------------------------------------
\* What C4 asks of one step: kept(S) is what loadAll is to return of the
\* records S that were there.
C4_Step(L, LN, kept(_)) ==
  \A u \in UserAdds, t \in Timestamps :
    AddStep(u, t, L) =>
      LN = Ok(kept(L.rows) \o RoundPrices(<<TypedRow(u, t)>>))

\* C4 as stated: after a successful append of r to a store that loads as S,
\* loadAll returns S followed by r, r's price rounded to two decimals.
C4_AppendExact ==
  [][pc = "menu" /\ out'.msg = "Saved."
       => C4_Step(Loaded, LoadedNext, SameRows)]_vars

\* C4 amended: loadAll returns S followed by r with every price, those of S
\* too, rounded to two decimals.
C4_AppendRounded ==
  [][pc = "menu" /\ out'.msg = "Saved."
       => C4_Step(Loaded, LoadedNext, RoundPrices)]_vars

\* C4's case: the same record was appended twice and is there twice, its
\* price 4,509 as 4.51.
C4_Witness ==
  /\ out.msg = "Saved."
  /\ Loaded.ok
  /\ Len(Loaded.rows) = 2
  /\ Loaded.rows[1] = Loaded.rows[2]
  /\ Loaded.rows[1].price = Fin(FALSE, 451, 2)

----------------------------------------------------------------------------
\* The claim's mapping of one data line, by its own number of fields: five
\* or more give product, category, price, url, timestamp from columns 0 to
\* 4; fewer give product from column 0, an empty category, and price, url,
\* timestamp from columns 1 to 3 (a missing column: empty, price 0.0).
Col(rec, i) == IF i < Len(rec) THEN rec[i + 1] ELSE <<>>

PriceOf(cell) == IF ParseF64(cell).ok THEN ParseF64(cell).val ELSE Zero

ByFieldCount(rec) ==
  IF Len(rec) >= 5
  THEN Row(Col(rec, 0), Col(rec, 1), PriceOf(Col(rec, 2)), Col(rec, 3), Col(rec, 4))
  ELSE Row(Col(rec, 0), <<>>, PriceOf(Col(rec, 1)), Col(rec, 2), Col(rec, 3))

DataRecords(text) == Tail(CsvRecords(text))

EachByFieldCount(recs) == [i \in 1..Len(recs) |-> ByFieldCount(recs[i])]

\* C5: decode maps every data line by that line's own number of fields,
\* whatever the header line and the other lines are, so that a four-column
\* line decodes to a record with an empty category under any header.
C5_ByOwnCount ==
  [][pc = "menu" /\ ListStep(Loaded) =>
       /\ pc' = "menu"
       /\ out'.rows = EachByFieldCount(DataRecords(files[DB].text))]_vars

----------------------------------------------------------------------------
FiniteNonNegative(rows) ==
  \A i \in 1..Len(rows) :
    /\ rows[i].price.k = "fin"
    /\ PartialCmp(rows[i].price, Zero) \in {"gt", "eq"}

\* C6: every record loadAll returns, after any additions and deletions and
\* on hand-edited files, has a finite price that is not negative.
C6_PricesFiniteNonNegative == Loaded.ok => FiniteNonNegative(Loaded.rows)

----------------------------------------------------------------------------
\* What C7 asks of one step.
C7_Step(L) ==
  \A u \in UserAdds, t \in Timestamps :
    AddStep(u, t, L) /\ ~ParseF64(ReplaceCommas(u[3])).ok =>
      files' = files /\ pc' = "menu"

\* C7: when the price typed for option 1 does not parse, the store is left
\* as it is and the program goes back to the menu.
C7_BadPriceReprompts ==
  [][pc = "menu" /\ out'.msg # "Saved." => C7_Step(Loaded)]_vars

----------------------------------------------------------------------------
\* C8: decode(encode(records)) = records for well-formed records whose
\* prices have at most two fraction digits, whatever commas, quotes and line
\* ends their texts hold, empty texts and the empty sequence included.
C8_RoundTrip == [][pc = "encoded" /\ pc' = "decoded" => out' = out]_vars

\* C8's case: two records were encoded and decoded, one with a line end in
\* its product, one with a quote in its product and an empty category.
C8_Witness ==
  /\ pc = "decoded"
  /\ Len(out.rows) = 2
  /\ out.rows[1].product = <<"x",LF,"y",CR>>
  /\ out.rows[2].product = <<"q",QUOTE,"x">>
  /\ out.rows[2].category = <<>>

----------------------------------------------------------------------------
Leq(a, b) == PartialCmp(a, b) \in {"lt", "eq"}

\* No candidate's price is below candidate j's (a candidate whose price is
\* not a number is not counted against it), and j is the first with its price.
IsCheapest(cands, j) ==
  /\ \A k \in 1..Len(cands) :
       k # j => Leq(cands[j].price, cands[k].price) \/ cands[k].price.k = "nan"
  /\ \A k \in 1..(j - 1) : PartialCmp(cands[k].price, cands[j].price) # "eq"

Candidates(rows, cat) ==
  SelectSeq(rows, LAMBDA r : cat = <<>> \/ LowerText(r.category) = LowerText(cat))

ShowsCheapest(cands) ==
  IF cands = <<>> THEN out'.rows = <<>>
  ELSE \E j \in 1..Len(cands) : out'.rows = <<cands[j]>> /\ IsCheapest(cands, j)

C9_Step(L) ==
  L.ok =>
    \A cat \in Categories :
      CheapestStep(cat, L) =>
        pc' = "menu" /\ ShowsCheapest(Candidates(L.rows, cat))

\* C9: option 3 shows, of the records of the category typed (all records
\* when it is empty; letter case ignored), the one with the lowest price, the
\* earliest of several with that price; with no such record it shows none.
C9_CheapestIsMinimum ==
  [][pc = "menu"
     /\ out'.msg \in {"Cheapest option:", "No entries.",
                      "No entries for that category."} => C9_Step(Loaded)]_vars

----------------------------------------------------------------------------
NoneLost(L, LN) ==
  /\ LN.ok
  /\ \A i \in 1..Len(L.rows) : L.rows[i] \in Range(LN.rows)

WrittenBy(L) ==
  { EncodeRows(Append(L.rows, TypedRow(u, t))) :
      u \in {v \in UserAdds : ParseF64(ReplaceCommas(v[3])).ok}, t \in Timestamps }
  \cup { EncodeRows(Without(L.rows, n)) : n \in 1..Len(L.rows) }

C10_Step(L) ==
  \E new \in WrittenBy(L) :
    IsPrefix(files'[DB].text, new) /\ files'[DB].text # new

====
